---------------------------- MODULE Spec2Model ----------------------------
(***************************************************************************)
(* A model of ip_lookup.py: parse_log_file scans an access log, collects   *)
(* the distinct leading tokens that ipaddress.ip_address accepts, then     *)
(* looks each one up with get_ip_location and writes a CSV table.          *)
(*                                                                         *)
(* Text is modelled as a sequence of atoms: an atom is either a separator  *)
(* character (space, tab, line terminator) or a maximal run of other       *)
(* characters (a "word").  A Python str is therefore a Seq(STRING), and    *)
(* str.split(" ") and ipaddress.ip_address are modelled by what they do on *)
(* such sequences (CPython >= 3.9, requests >= 2.27).                      *)
(***************************************************************************)
EXTENDS Naturals, Sequences, FiniteSets

(***************************************************************************)
(* Bounds of the model.                                                    *)
(***************************************************************************)
MaxLines == 2

(***************************************************************************)
(* Vocabulary of the input.                                                *)
(***************************************************************************)
SP  == " "
TAB == "\t"
NL  == "\n"

\* Words that are an IPv4/IPv6 address without a zone id.
PlainIPWords == {"8.8.8.8", "1.1.1.1"}
\* Words that are an IPv6 address with a zone id ("%eth0").
ScopedIPWords == {"fe80::1%eth0"}
\* Words that are no IP address.
NonIPWords == {"999.999.999.999", "not-an-ip"}
\* The word that follows the client address in a log line.
RestWord == "GET"

LeadWords == PlainIPWords \cup ScopedIPWords \cup NonIPWords

\* The line shapes of the input, without their terminator.
LineBodies ==
    {<<>>}
    \cup {<<w>> : w \in LeadWords}
    \cup {<<w, s, RestWord>> : w \in LeadWords, s \in {SP, TAB}}
    \cup {<<SP, w>> : w \in PlainIPWords}

\* Iterating a text file yields lines that keep their terminator; only the
\* last line of a file may lack one (and is then not empty).
TerminatedLines == {b \o <<NL>> : b \in LineBodies}
UnterminatedLines == LineBodies \ {<<>>}

Logs ==
    UNION {
        {l \in [1..n -> TerminatedLines \cup UnterminatedLines] :
            \A i \in 1..n : i < n => l[i] \in TerminatedLines}
        : n \in 0..MaxLines}

(***************************************************************************)
(* str.split(" ") (line 47): the pieces between single spaces; never       *)
(* empty, and no other whitespace character separates.                     *)
(***************************************************************************)
RECURSIVE Split(_)
Split(line) ==
    IF \E i \in 1..Len(line) : line[i] = SP
    THEN LET i == CHOOSE k \in 1..Len(line) :
                    line[k] = SP /\ \A j \in 1..(k - 1) : line[j] # SP
         IN  <<SubSeq(line, 1, i - 1)>> \o Split(SubSeq(line, i + 1, Len(line)))
    ELSE <<line>>

(***************************************************************************)
(* ipaddress.ip_address (line 51): TRUE when the string is accepted,       *)
(* FALSE when it raises ValueError.  An IPv4 or unscoped IPv6 address must *)
(* be the whole string.  For a scoped IPv6 address everything after the    *)
(* first "%" is the zone id, which may hold any character except a second  *)
(* "%" (and must not be empty).                                            *)
(***************************************************************************)
IsIPAddress(s) ==
    /\ Len(s) >= 1
    /\ \/ Len(s) = 1 /\ s[1] \in PlainIPWords
       \/ /\ s[1] \in ScopedIPWords
          /\ \A i \in 2..Len(s) : s[i] \notin ScopedIPWords

(***************************************************************************)
(* The geolocation service's possible answers to one request.              *)
(***************************************************************************)
LocationKeys == {"city", "country", "org", "asname"}

ServiceValue(k) ==
    CASE k = "city"    -> <<"Mountain View">>
      [] k = "country" -> <<"United States">>
      [] k = "org"     -> <<"Google Public DNS">>
      [] k = "asname"  -> <<"GOOGLE">>
      [] OTHER         -> <<"invalid query">>

\* JSON objects: the status flag is absent, "success" or "fail".
JsonObjects ==
    {[k \in {} |-> <<>>]}
    \cup {[k \in {"status"} \cup F |->
              IF k = "status" THEN <<"success">> ELSE ServiceValue(k)]
          : F \in SUBSET LocationKeys}
    \cup {[k \in {"status"} \cup F |->
              IF k = "status" THEN <<"fail">> ELSE ServiceValue(k)]
          : F \in SUBSET {"message"}}

NoData == [k \in {} |-> <<>>]

\* A transport failure, a non-2xx status, a body that is not JSON, JSON
\* that is not an object (a list, a string, a number, null), or an object.
Responses ==
    {[kind |-> k, data |-> NoData] :
        k \in {"ConnectionError", "HTTPError", "InvalidJSON", "NonObjectJSON"}}
    \cup {[kind |-> "Object", data |-> d] : d \in JsonObjects}


(***************************************************************************)
(* get_ip_location (lines 5-33) as a function of the service's answer.     *)
(* The result is what the call does: return None, return a tuple, or let   *)
(* an exception escape; "printed" is the message it prints, if any.        *)
(***************************************************************************)
Unknown == <<"Unknown">>

Returned(items) ==
    [tag |-> "tuple", items |-> items, exc |-> "", printed |-> ""]
ReturnedNone(msg) ==
    [tag |-> "None", items |-> <<>>, exc |-> "", printed |-> msg]
Raised(exc) ==
    [tag |-> "raise", items |-> <<>>, exc |-> exc, printed |-> ""]

\* dict.get(key, default)
Get(data, k, default) == IF k \in DOMAIN data THEN data[k] ELSE default

get_ip_location(resp) ==
    IF resp.kind \in {"ConnectionError", "HTTPError", "InvalidJSON"}
    THEN \* requests.get, raise_for_status and response.json raise a
         \* RequestException, caught at line 28
         ReturnedNone("Error during IP geolocation lookup")
    ELSE IF resp.kind = "NonObjectJSON"
    THEN \* data["status"] on a list, string, number or null: TypeError,
         \* which neither except clause catches
         Raised("TypeError")
    ELSE LET data == resp.data IN
         IF "status" \notin DOMAIN data
         THEN ReturnedNone("Error parsing geolocation response")
         ELSE IF data["status"] = <<"success">>
         THEN Returned(<<Get(data, "city", Unknown),
                         Get(data, "country", Unknown),
                         Get(data, "org", Unknown),
                         Get(data, "asname", Unknown)>>)
         ELSE IF "message" \notin DOMAIN data
         THEN \* data['message'] at line 26 raises KeyError, caught at line 31
              ReturnedNone("Error parsing geolocation response")
         ELSE ReturnedNone("IP geolocation API error")

(***************************************************************************)
(* The state of one run of parse_log_file.                                 *)
(***************************************************************************)
VARIABLES
    logExists,   \* whether log_file_path names an existing file
    log,         \* the lines of the log file
    out,         \* the output file on disk: [exists, rows]
    csvfile,     \* the output file handle: "unopened", "open" or "closed"
    pc,          \* the position of the run
    idx,         \* the number of the next line the scan reads
    ip_address,  \* the candidate token of the line scanned last
    unique_ips,  \* the set of accepted tokens
    pending,     \* the elements of unique_ips the for loop has yet to yield
    requests,    \* the IPs a request was issued for, in order
    responses,   \* the service's answers, in order
    location,    \* the result of the last get_ip_location call
    stdout,      \* the messages printed
    exit         \* how the run ended: "", "ok", "FileNotFoundError", "Exception"

vars == <<logExists, log, out, csvfile, pc, idx, ip_address, unique_ips,
          pending, requests, responses, location, stdout, exit>>

Header == <<<<"IP Address">>, <<"City">>, <<"Country">>,
            <<"Organization">>, <<"ASName">>>>

\* What output_csv_path holds before the run: nothing, or an earlier table.
StaleRow == <<<<"stale">>>>
NoFile == [exists |-> FALSE, rows |-> <<>>]
StaleFile == [exists |-> TRUE, rows |-> <<StaleRow>>]

NoLocation == ReturnedNone("")
Msg(text, arg) == [text |-> text, arg |-> arg]

Init ==
    /\ logExists \in BOOLEAN
    /\ log \in (IF logExists THEN Logs ELSE {<<>>})
    /\ out \in {NoFile, StaleFile}
    /\ csvfile = "unopened"
    /\ pc = "open_log"
    /\ idx = 1
    /\ ip_address = <<>>
    /\ unique_ips = {}
    /\ pending = {}
    /\ requests = <<>>
    /\ responses = <<>>
    /\ location = NoLocation
    /\ stdout = <<>>
    /\ exit = ""

\* A variant of OpenLogMissing: the output file is opened for writing before
\* the log file is.
OpenLogMissing_OutputFirst ==
    /\ pc = "open_log"
    /\ ~logExists
    /\ out' = [exists |-> TRUE, rows |-> <<>>]
    /\ stdout' = Append(stdout, Msg("Error: Log file not found", <<>>))
    /\ exit' = "FileNotFoundError"
    /\ pc' = "done"
    /\ UNCHANGED <<logExists, log, csvfile, idx, ip_address, unique_ips,
                   pending, requests, responses, location>>

\* Line 45 on a missing file: FileNotFoundError, handled at lines 68-69.
OpenLogMissing ==
    /\ pc = "open_log"
    /\ ~logExists
    /\ stdout' = Append(stdout, Msg("Error: Log file not found", <<>>))
    /\ exit' = "FileNotFoundError"
    /\ pc' = "done"
    /\ UNCHANGED <<logExists, log, out, csvfile, idx, ip_address, unique_ips,
                   pending, requests, responses, location>>

\* Line 45 on an existing file.
OpenLog ==
    /\ pc = "open_log"
    /\ logExists
    /\ pc' = "scan"
    /\ UNCHANGED <<logExists, log, out, csvfile, idx, ip_address, unique_ips,
                   pending, requests, responses, location, stdout, exit>>

\* Lines 46-54: one iteration of the scan.
ScanLine ==
    /\ pc = "scan"
    /\ idx <= Len(log)
    /\ LET parts == Split(log[idx]) IN
       /\ Len(parts) > 0
       /\ ip_address' = parts[1]
       /\ IF IsIPAddress(parts[1])
          THEN /\ unique_ips' = unique_ips \cup {parts[1]}
               /\ UNCHANGED stdout
          ELSE /\ stdout' = Append(stdout,
                                   Msg("Invalid IP address found", parts[1]))
               /\ UNCHANGED unique_ips
    /\ idx' = idx + 1
    /\ UNCHANGED <<logExists, log, out, csvfile, pc, pending, requests,
                   responses, location, exit>>

\* A variant of OpenOutput: the block of lines 56-66 is indented into the
\* scan loop, so that the table is written after the first line already.
OpenOutput_InsideScan ==
    /\ pc = "scan"
    /\ idx > 1 \/ idx > Len(log)
    /\ out' = [exists |-> TRUE, rows |-> <<Header>>]
    /\ csvfile' = "open"
    /\ pending' = unique_ips
    /\ pc' = "loop"
    /\ UNCHANGED <<logExists, log, idx, ip_address, unique_ips, requests,
                   responses, location, stdout, exit>>

\* Lines 56-58: the scan is over; the output file is created or truncated
\* and the header written; the for loop of line 60 starts.
OpenOutput ==
    /\ pc = "scan"
    /\ idx > Len(log)
    /\ out' = [exists |-> TRUE, rows |-> <<Header>>]
    /\ csvfile' = "open"
    /\ pending' = unique_ips
    /\ pc' = "loop"
    /\ UNCHANGED <<logExists, log, idx, ip_address, unique_ips, requests,
                   responses, location, stdout, exit>>

\* Lines 60-61 and 16: the loop yields the next IP, in no particular order,
\* and get_ip_location sends the request for it.
NextIP ==
    /\ pc = "loop"
    /\ \E ip \in pending :
        /\ pending' = pending \ {ip}
        /\ requests' = Append(requests, ip)
    /\ pc' = "request"
    /\ UNCHANGED <<logExists, log, out, csvfile, idx, ip_address, unique_ips,
                   responses, location, stdout, exit>>

\* Lines 16-33: the request completes and get_ip_location returns; or an
\* exception escapes it and is handled at lines 70-71, which ends the run.
Respond ==
    /\ pc = "request"
    /\ \E resp \in Responses :
        LET r == get_ip_location(resp) IN
        /\ responses' = Append(responses, resp)
        /\ location' = r
        /\ IF r.tag = "raise"
           THEN /\ stdout' = Append(stdout,
                       Msg("An unexpected error occurred", <<r.exc>>))
                /\ csvfile' = "closed"
                /\ exit' = "Exception"
                /\ pc' = "done"
           ELSE /\ stdout' = IF r.printed = "" THEN stdout
                             ELSE Append(stdout, Msg(r.printed, <<>>))
                /\ pc' = "row"
                /\ UNCHANGED <<csvfile, exit>>
    /\ UNCHANGED <<logExists, log, out, idx, ip_address, unique_ips, pending,
                   requests>>

\* Lines 62-64: a truthy location is unpacked into three names.  A tuple
\* of another length raises ValueError; with three items line 64 would
\* raise NameError (orgname is not defined).  Lines 70-71 handle either.
UnpackRow ==
    /\ pc = "row"
    /\ location.tag = "tuple"
    /\ stdout' = Append(stdout,
           Msg("An unexpected error occurred",
               IF Len(location.items) = 3 THEN <<"NameError">>
                                          ELSE <<"ValueError">>))
    /\ csvfile' = "closed"
    /\ exit' = "Exception"
    /\ pc' = "done"
    /\ UNCHANGED <<logExists, log, out, idx, ip_address, unique_ips, pending,
                   requests, responses, location>>

\* A variant of WriteUnknownRow: an IP whose lookup failed is looked up again.
WriteUnknownRow_Retry ==
    /\ pc = "row"
    /\ location.tag = "None"
    /\ out' = [out EXCEPT !.rows =
                  Append(@, <<requests[Len(requests)],
                              Unknown, Unknown, Unknown, Unknown>>)]
    /\ pending' = pending \cup {requests[Len(requests)]}
    /\ pc' = "loop"
    /\ UNCHANGED <<logExists, log, csvfile, idx, ip_address, unique_ips,
                   requests, responses, location, stdout, exit>>

\* Lines 65-66: the row of an IP whose lookup returned None.
WriteUnknownRow ==
    /\ pc = "row"
    /\ location.tag = "None"
    /\ out' = [out EXCEPT !.rows =
                  Append(@, <<requests[Len(requests)],
                              Unknown, Unknown, Unknown, Unknown>>)]
    /\ pc' = "loop"
    /\ UNCHANGED <<logExists, log, csvfile, idx, ip_address, unique_ips,
                   pending, requests, responses, location, stdout, exit>>

\* The loop of line 60 is exhausted: the with block closes the file.
Finish ==
    /\ pc = "loop"
    /\ pending = {}
    /\ csvfile' = "closed"
    /\ exit' = "ok"
    /\ pc' = "done"
    /\ UNCHANGED <<logExists, log, out, idx, ip_address, unique_ips, pending,
                   requests, responses, location, stdout>>

Next ==
    \/ OpenLogMissing
    \/ OpenLog
    \/ ScanLine
    \/ OpenOutput
    \/ NextIP
    \/ Respond
    \/ UnpackRow
    \/ WriteUnknownRow
    \/ Finish

Spec == Init /\ [][Next]_vars


(***************************************************************************)
(* Notions the properties are stated with.                                 *)
(***************************************************************************)
Whitespace == {SP, TAB, NL}

\* The first whitespace-delimited token of a line: its longest prefix that
\* holds no whitespace character.
FirstToken(line) ==
    LET stops == {i \in 1..Len(line) : line[i] \in Whitespace}
        end == IF stops = {} THEN Len(line)
               ELSE (CHOOSE i \in stops : \A j \in stops : i <= j) - 1
    IN  SubSeq(line, 1, end)

\* A string that is an IPv4 or IPv6 address in the standard syntax.
IsStandardIP(s) == Len(s) = 1 /\ s[1] \in PlainIPWords \cup ScopedIPWords

\* The valid leading IP tokens of the lines 1..n of the log.
LeadingIPs(n) ==
    {t \in {FirstToken(log[i]) : i \in 1..n} : IsStandardIP(t)}

\* The data rows of the table this run has written.
DataRows ==
    IF csvfile = "unopened" \/ Len(out.rows) < 2 THEN <<>>
    ELSE SubSeq(out.rows, 2, Len(out.rows))

RowsOf(ip) == {i \in 1..Len(DataRows) : DataRows[i][1] = ip}

\* The lookups whose row, if any, has been written: the loop has moved on
\* from them or the run is over.
Settled == {i \in 1..Len(responses) : i < Len(requests) \/ pc \in {"loop", "done"}}

ReportsSuccess(resp) ==
    /\ resp.kind = "Object"
    /\ "status" \in DOMAIN resp.data
    /\ resp.data["status"] = <<"success">>

FieldOrUnknown(resp, k) ==
    IF k \in DOMAIN resp.data THEN resp.data[k] ELSE Unknown

SuccessRow(ip, resp) ==
    <<ip, FieldOrUnknown(resp, "city"), FieldOrUnknown(resp, "country"),
      FieldOrUnknown(resp, "org"), FieldOrUnknown(resp, "asname")>>

UnknownRow(ip) == <<ip, Unknown, Unknown, Unknown, Unknown>>

(***************************************************************************)
(* C1: when a run on an existing log finishes, the table holds exactly one *)
(* data row per distinct valid leading IP token of the log, and no other   *)
(* data row.                                                               *)
(***************************************************************************)
C1_OneRowPerValidIP ==
    (pc = "done" /\ logExists) =>
        /\ \A ip \in LeadingIPs(Len(log)) : Cardinality(RowsOf(ip)) = 1
        /\ \A i \in 1..Len(DataRows) : DataRows[i][1] \in LeadingIPs(Len(log))

(***************************************************************************)
(* C2: every IP whose lookup reported success has the row (ip, city,       *)
(* country, organization, AS name) with each field as the service gave it, *)
(* or "Unknown" for a field the response omits.                            *)
(***************************************************************************)
C2_SuccessRowMatchesResponse ==
    \A i \in Settled :
        ReportsSuccess(responses[i]) =>
            \E j \in 1..Len(DataRows) :
                DataRows[j] = SuccessRow(requests[i], responses[i])

(***************************************************************************)
(* C3: every IP whose lookup failed in any way (transport error, non-2xx   *)
(* status, non-success status flag, malformed payload) has the row of that *)
(* IP followed by four "Unknown" fields.                                   *)
(***************************************************************************)
C3_FailureRowAllUnknown ==
    \A i \in Settled :
        ~ReportsSuccess(responses[i]) =>
            \E j \in 1..Len(DataRows) : DataRows[j] = UnknownRow(requests[i])

(***************************************************************************)
(* C4: get_ip_location never lets an exception escape: whatever the        *)
(* request's outcome, it returns a 4-field location record or None.        *)
(***************************************************************************)
C4_NoExceptionEscapes ==
    /\ location.tag \in {"None", "tuple"}
    /\ location.tag = "tuple" => Len(location.items) = 4

(***************************************************************************)
(* C5: once the log has been opened, the run ends only after the header    *)
(* and a row for every unique IP have been written; no invalid token and   *)
(* no lookup outcome ends it early.                                        *)
(***************************************************************************)
C5_NoEarlyTermination ==
    (pc = "done" /\ logExists) =>
        /\ exit = "ok"
        /\ out.exists /\ out.rows # <<>> /\ out.rows[1] = Header
        /\ \A ip \in unique_ips : RowsOf(ip) # {}

(***************************************************************************)
(* C6: when the log file does not exist the run aborts: the output file is *)
(* neither created nor truncated, no lookup is issued, and the only effect *)
(* is the "file not found" diagnostic.                                     *)
(***************************************************************************)
C6_MissingLogLeavesNoTrace ==
    /\ [](~logExists =>
            /\ csvfile = "unopened"
            /\ requests = <<>> /\ responses = <<>>
            /\ unique_ips = {}
            /\ pc \in {"open_log", "done"}
            /\ pc = "done" =>
                  /\ exit = "FileNotFoundError"
                  /\ stdout = <<Msg("Error: Log file not found", <<>>)>>)
    /\ [][~logExists => out' = out]_vars

C6_Witness ==
    /\ ~logExists
    /\ pc = "done"
    /\ out = StaleFile
    /\ Len(stdout) = 1

(***************************************************************************)
(* C7: in every state, every IP in the unique-IP set or in a data row is a *)
(* syntactically valid IP address that was the leading token of a scanned  *)
(* log line.                                                               *)
(***************************************************************************)
C7_OnlyValidLeadingTokens ==
    \A ip \in unique_ips \cup {DataRows[i][1] : i \in 1..Len(DataRows)} :
        /\ IsStandardIP(ip)
        /\ ip \in LeadingIPs(idx - 1)

(***************************************************************************)
(* C8: the candidate the scanner validates for a line is the line's first  *)
(* whitespace-delimited token; a line that is a valid IP followed only by  *)
(* its terminator, or by a tab, contributes that IP to the unique-IP set.  *)
(***************************************************************************)
C8_CandidateIsFirstToken ==
    (pc = "scan" /\ idx > 1) =>
        /\ ip_address = FirstToken(log[idx - 1])
        /\ LeadingIPs(idx - 1) \subseteq unique_ips

(***************************************************************************)
(* C9: the run is phased: all lines are scanned and the unique-IP set is   *)
(* final before the first lookup; the header precedes every data row; and  *)
(* lookups are sequential, the row of an IP being written after its lookup *)
(* returned and before the next lookup starts.                             *)
(***************************************************************************)
C9_StrictlyPhased ==
    /\ [](requests # <<>> => pc \notin {"open_log", "scan"} /\ idx = Len(log) + 1)
    /\ [][requests' # <<>> => unique_ips' = unique_ips]_vars
    /\ [](out \notin {NoFile, StaleFile} =>
             /\ csvfile # "unopened"
             /\ out.rows # <<>> /\ out.rows[1] = Header)
    /\ [](/\ Len(DataRows) <= Len(responses)
          /\ Len(responses) <= Len(requests)
          /\ Len(requests) <= Len(DataRows) + 1
          /\ \A i \in 1..Len(DataRows) : DataRows[i][1] = requests[i])

C9_Witness ==
    /\ pc = "request"
    /\ Len(requests) = 2
    /\ Len(responses) = 1
    /\ Len(DataRows) = 1

(***************************************************************************)
(* C10: no retries: at most one request is issued per unique IP, whatever  *)
(* its outcome, and none for anything that is not in the unique-IP set.    *)
(***************************************************************************)
C10_AtMostOneRequestPerIP ==
    /\ \A i \in 1..Len(requests) : requests[i] \in unique_ips
    /\ \A i, j \in 1..Len(requests) : requests[i] = requests[j] => i = j

C10_Witness ==
    /\ pc = "done"
    /\ Len(log) = 2
    /\ Cardinality(unique_ips) = 1
    /\ Split(log[1])[1] = Split(log[2])[1]
    /\ Len(requests) = 1
    /\ responses[1].kind = "ConnectionError"

=============================================================================
